---- MODULE Spec2Model ----
(***************************************************************************)
(* Authorization and ownership model of the task-manager API: users,       *)
(* tasks, comments and notifications, the permission rules of              *)
(* core/permissions.py, the three resource services and the due-date       *)
(* notification scan.  Each action is one service call, run to completion  *)
(* (one request, one transaction).                                         *)
(***************************************************************************)
EXTENDS Integers, Sequences, FiniteSets, TLC

\* ------------------------------------------------------------------ bounds
MaxTasks == 2
MaxComments == 2
MaxNotifications == 3
MaxTime == 3
\* tasks created where comments or notifications hang off them
MaxParentTasks == 1
\* rows of the users table
MaxUsers == 6
\* comments and notifications created where every write is run
MaxServiceComments == 1
MaxServiceNotifications == 2
\* number of clock ticks in one day (timedelta(days=1) in the scan)
DayLen == 2

\* -------------------------------------------------------------- constants
DEFAULT_PAGE_SIZE == 100

OWNER == "owner"
MEMBER == "member"

TODO == "todo"
IN_PROGRESS == "in_progress"
DONE == "done"
TaskStatus == {TODO, IN_PROGRESS, DONE}

DUE_SOON == "due_soon"
OVERDUE == "overdue"
DUE_TODAY == "due_today"
NotificationType == {DUE_SOON, OVERDUE, DUE_TODAY}

ERROR_INSUFFICIENT_PERMISSIONS == "Insufficient permissions. OWNER role required."
ERROR_OWNER_ROLE_REQUIRED == "This action requires OWNER role"
ERROR_TASK_NOT_FOUND == "Task not found"
ERROR_COMMENT_NOT_FOUND == "Comment not found"
ERROR_NOTIFICATION_NOT_FOUND == "Notification not found"
ERROR_NO_TASK_ACCESS == "You do not have permission to access this task"
ERROR_INVALID_USER_DATA == "Invalid user data"
ERROR_INACTIVE_USER_CREATE_TASK == "Inactive users cannot create tasks"
ERROR_ASSIGN_INACTIVE_USER == "Cannot assign task to inactive user"
ERROR_NEW_OWNER_NOT_FOUND == "New owner not found"

\* ------------------------------------------------------------------ state
VARIABLES
  users,                 \* table users:         id -> row
  tasks,                 \* table tasks:         id -> row
  comments,              \* table comments:      id -> row
  notifications,         \* table notifications: id -> row
  next_task_id,          \* primary-key sequences
  next_comment_id,
  next_notification_id,
  now,                   \* datetime.now(timezone.utc), in ticks
  resp,                  \* the response to the last call
  req,                   \* history: the last call, as a specification
                         \* chooses to record it
  calls                  \* the calls in flight: call -> its local variables

vars == <<users, tasks, comments, notifications, next_task_id,
          next_comment_id, next_notification_id, now, resp, req,
          calls>>

\* ---------------------------------------------------------------- helpers
\* Optional[T]: None or one value
None == {}
Some(x) == {x}
Val(o) == CHOOSE x \in o : TRUE

\* db.add(row) + commit, and db.delete(rows) + commit, on a table
Put(table, id, row) ==
  [i \in (DOMAIN table) \cup {id} |-> IF i = id THEN row ELSE table[i]]
Drop(table, ids) == [i \in (DOMAIN table) \ ids |-> table[i]]

Min(a, b) == IF a < b THEN a ELSE b
Max(a, b) == IF a > b THEN a ELSE b

\* a raised HTTPException, or the absence of one
Ok == [status |-> 200, detail |-> ""]
Err(code, msg) == [status |-> code, detail |-> msg]

\* the HTTP response: status code, error detail, and what the body names
Resp(r, result) ==
  [status |-> r.status, detail |-> r.detail, result |-> result]

\* ------------------------------------------------------ permission rules
require_owner_role(user) ==
  IF user.role # OWNER THEN Err(403, ERROR_OWNER_ROLE_REQUIRED) ELSE Ok

can_user_access_task(user, task) ==
  task.owner_id = user.id \/ user.role = OWNER

\* mutant: the denial is masked as a missing task
require_task_access_masked(user, task) ==
  IF ~can_user_access_task(user, task)
  THEN Err(404, ERROR_TASK_NOT_FOUND) ELSE Ok

require_task_access(user, task) ==
  IF ~can_user_access_task(user, task)
  THEN Err(403, ERROR_NO_TASK_ACCESS) ELSE Ok

can_user_modify_task(user, task) ==
  task.owner_id = user.id \/ user.role = OWNER

\* mutant: the denial is not masked
require_task_modification_forbidden(user, task) ==
  IF ~can_user_modify_task(user, task)
  THEN Err(403, ERROR_NO_TASK_ACCESS) ELSE Ok

require_task_modification(user, task) ==
  IF ~can_user_modify_task(user, task)
  THEN Err(404, ERROR_TASK_NOT_FOUND) ELSE Ok

\* mutant: the OWNER role may edit any comment
can_user_modify_comment_or_owner_role(user, comment) ==
  comment.author_id = user.id \/ user.role = OWNER

can_user_modify_comment(user, comment) ==
  comment.author_id = user.id

require_comment_modification(user, comment) ==
  IF ~can_user_modify_comment(user, comment)
  THEN Err(404, ERROR_COMMENT_NOT_FOUND) ELSE Ok

can_user_delete_comment(user, comment) ==
  comment.author_id = user.id \/ user.role = OWNER

require_comment_deletion(user, comment) ==
  IF ~can_user_delete_comment(user, comment)
  THEN Err(404, ERROR_COMMENT_NOT_FOUND) ELSE Ok

\* mutant: the OWNER role may reach any notification
can_user_access_notification_or_owner_role(user, notification) ==
  notification.user_id = user.id \/ user.role = OWNER

can_user_access_notification(user, notification) ==
  notification.user_id = user.id

require_notification_access(user, notification) ==
  IF ~can_user_access_notification(user, notification)
  THEN Err(404, ERROR_NOTIFICATION_NOT_FOUND) ELSE Ok

\* deps.get_current_user: the caller is an existing, active user
get_current_user(u) == u \in DOMAIN users /\ users[u].is_active

\* an email address: <<local part, domain>>
SeedEmails == <<<<"a", "x">>, <<"b", "x">>, <<"c", "x">>, <<"d", "x">>>>

\* ------------------------------------------------------------------- Init
Init ==
  /\ users = [i \in 1..4 |->
               [id |-> i,
                email |-> SeedEmails[i],
                role |-> IF i = 1 THEN OWNER ELSE MEMBER,
                is_active |-> i # 4]]
  /\ tasks = <<>>
  /\ comments = <<>>
  /\ notifications = <<>>
  /\ next_task_id = 1
  /\ next_comment_id = 1
  /\ next_notification_id = 1
  /\ now = 0
  /\ resp = Resp(Ok, {})
  /\ req = [op |-> "none"]
  /\ calls = <<>>

\* ---------------------------------------------------------- user service
get_current_owner(current_user) ==
  IF current_user.role # OWNER
  THEN Err(403, ERROR_INSUFFICIENT_PERMISSIONS) ELSE Ok

\* pydantic EmailStr: the domain is lower-cased, the local part is kept
Lower(str) == IF str = "X" THEN "x" ELSE str
EmailStr(email) == <<email[1], Lower(email[2])>>

\* mutant: the lookup finds nobody
get_by_email_nobody(email) == {}

\* select(User).where(User.email == email)
UserRepository_get_by_email(email) ==
  {users[i] : i \in {j \in DOMAIN users : users[j].email = email}}

UserRepository_create(user_in) ==
  [id |-> Len(users) + 1, email |-> user_in.email, role |-> user_in.role,
   is_active |-> user_in.is_active]

\* UserService.create_user_by_owner behind POST /users/
create_user(u, body) ==
  /\ get_current_user(u)
  /\ LET user_data == [email |-> EmailStr(body.email), role |-> body.role] IN
     IF get_current_owner(users[u]) # Ok
     THEN /\ resp' = Resp(get_current_owner(users[u]), {})
          /\ users' = users
     ELSE IF UserRepository_get_by_email(user_data.email) # {}
     THEN /\ resp' = Resp(Err(400, ERROR_INVALID_USER_DATA), {})
          /\ users' = users
     ELSE LET new_user ==
                UserRepository_create([email |-> user_data.email,
                                       role |-> user_data.role,
                                       is_active |-> TRUE]) IN
          /\ users' = Append(users, new_user)
          /\ resp' = Resp(Err(201, ""), {new_user})
  /\ UNCHANGED <<tasks, comments, notifications, next_task_id,
                 next_comment_id, next_notification_id, now>>

\* ---------------------------------------------------------- task service
\* TaskCreate / TaskUpdate.validate_due_date_not_past
validate_due_date_not_past(v) ==
  IF v # None THEN ~(Val(v) < now) ELSE TRUE

TaskRepository_create(obj_in, owner_id) ==
  [id |-> next_task_id, title |-> obj_in.title,
   description |-> obj_in.description, status |-> obj_in.status,
   due_date |-> obj_in.due_date, owner_id |-> owner_id]

\* mutant: the schema lets owner_id through
TaskUpdate_with_owner_id(body) ==
  [f \in DOMAIN body \cap {"title", "description", "status", "due_date",
                           "owner_id"} |-> body[f]]

\* TaskUpdate(**body).model_dump(exclude_unset=True): the four fields of
\* the schema, those of them the body carries; other keys are ignored
TaskUpdate(body) ==
  [f \in DOMAIN body \cap {"title", "description", "status", "due_date"}
     |-> body[f]]

\* mutant: a field the request does not carry is written as null
TaskRepository_update_unset_as_null(db_obj, update_data) ==
  [f \in DOMAIN db_obj |->
     IF f \in DOMAIN update_data THEN update_data[f]
     ELSE IF f = "description" THEN None ELSE db_obj[f]]

\* setattr(db_obj, field, value) for the fields the request carries
TaskRepository_update(db_obj, update_data) ==
  [f \in DOMAIN db_obj |->
     IF f \in DOMAIN update_data THEN update_data[f] ELSE db_obj[f]]

\* db.delete(task): the cascade="all, delete-orphan" relationships remove
\* the task's comments and notifications with it
CommentsOfTask(task_id) ==
  {c \in DOMAIN comments : comments[c].task_id = task_id}
\* mutant: the notifications relationship has no delete cascade
NotificationsOfTask_no_cascade(task_id) == {}

NotificationsOfTask(task_id) ==
  {n \in DOMAIN notifications : notifications[n].task_id = task_id}

TaskRepository_change_owner(task, new_owner_id) ==
  [task EXCEPT !.owner_id = new_owner_id]

get_task_for_action(task_id, user) ==
  IF task_id \notin DOMAIN tasks THEN Err(404, ERROR_TASK_NOT_FOUND)
  ELSE require_task_modification(user, tasks[task_id])

create_task(u, task_data) ==
  /\ get_current_user(u)
  /\ validate_due_date_not_past(task_data.due_date)
  /\ IF ~users[u].is_active
     THEN /\ resp' = Resp(Err(403, ERROR_INACTIVE_USER_CREATE_TASK), {})
          /\ UNCHANGED <<tasks, next_task_id>>
     ELSE /\ tasks' = Put(tasks, next_task_id,
                          TaskRepository_create(task_data, u))
          /\ next_task_id' = next_task_id + 1
          /\ resp' = Resp(Err(201, ""),
                          {TaskRepository_create(task_data, u)})
  /\ UNCHANGED <<users, comments, notifications, next_comment_id,
                 next_notification_id, now>>

update_task(u, task_id, update_data) ==
  /\ get_current_user(u)
  /\ IF "due_date" \in DOMAIN update_data
     THEN validate_due_date_not_past(update_data.due_date) ELSE TRUE
  /\ LET r == get_task_for_action(task_id, users[u]) IN
     IF r = Ok
     THEN LET updated_task ==
                TaskRepository_update(tasks[task_id], update_data) IN
          /\ tasks' = Put(tasks, task_id, updated_task)
          /\ resp' = Resp(Ok, {updated_task})
     ELSE /\ resp' = Resp(r, {})
          /\ tasks' = tasks
  /\ UNCHANGED <<users, comments, notifications, next_task_id,
                 next_comment_id, next_notification_id, now>>

delete_task(u, task_id) ==
  /\ get_current_user(u)
  /\ LET r == get_task_for_action(task_id, users[u]) IN
     IF r = Ok
     THEN /\ tasks' = Drop(tasks, {task_id})
          /\ comments' = Drop(comments, CommentsOfTask(task_id))
          /\ notifications' = Drop(notifications,
                                   NotificationsOfTask(task_id))
          /\ resp' = Resp(Err(204, ""), {})
     ELSE /\ resp' = Resp(r, {})
          /\ UNCHANGED <<tasks, comments, notifications>>
  /\ UNCHANGED <<users, next_task_id, next_comment_id,
                 next_notification_id, now>>

\* mutant: the task is looked up before the caller's role is checked
change_task_owner_check_task_first(task_id, new_owner_id, current_user) ==
  IF task_id \notin DOMAIN tasks
  THEN Err(404, ERROR_TASK_NOT_FOUND)
  ELSE IF require_owner_role(current_user) # Ok
  THEN require_owner_role(current_user)
  ELSE IF new_owner_id \notin DOMAIN users
  THEN Err(404, ERROR_NEW_OWNER_NOT_FOUND)
  ELSE IF ~users[new_owner_id].is_active
  THEN Err(400, ERROR_ASSIGN_INACTIVE_USER)
  ELSE Ok

\* mutant: the new owner is not looked up
change_task_owner_check_no_owner_lookup(task_id, new_owner_id, current_user) ==
  IF require_owner_role(current_user) # Ok
  THEN require_owner_role(current_user)
  ELSE IF task_id \notin DOMAIN tasks
  THEN Err(404, ERROR_TASK_NOT_FOUND)
  ELSE Ok

\* the checks of change_task_owner, in the order the code makes them
change_task_owner_check(task_id, new_owner_id, current_user) ==
  IF require_owner_role(current_user) # Ok
  THEN require_owner_role(current_user)
  ELSE IF task_id \notin DOMAIN tasks
  THEN Err(404, ERROR_TASK_NOT_FOUND)
  ELSE IF new_owner_id \notin DOMAIN users
  THEN Err(404, ERROR_NEW_OWNER_NOT_FOUND)
  ELSE IF ~users[new_owner_id].is_active
  THEN Err(400, ERROR_ASSIGN_INACTIVE_USER)
  ELSE Ok

\* mutant: the transfer hands the task's notifications to the new owner
change_task_owner_with_notifications(u, task_id, new_owner_id) ==
  /\ get_current_user(u)
  /\ LET r == change_task_owner_check(task_id, new_owner_id, users[u]) IN
     IF r = Ok
     THEN LET updated_task ==
                TaskRepository_change_owner(tasks[task_id], new_owner_id) IN
          /\ tasks' = Put(tasks, task_id, updated_task)
          /\ notifications' =
               [n \in DOMAIN notifications |->
                  IF notifications[n].task_id = task_id
                  THEN [notifications[n] EXCEPT !.user_id = new_owner_id]
                  ELSE notifications[n]]
          /\ resp' = Resp(Ok, {updated_task})
     ELSE /\ resp' = Resp(r, {})
          /\ UNCHANGED <<tasks, notifications>>
  /\ UNCHANGED <<users, comments, next_task_id, next_comment_id,
                 next_notification_id, now>>

change_task_owner(u, task_id, new_owner_id) ==
  /\ get_current_user(u)
  /\ LET r == change_task_owner_check(task_id, new_owner_id, users[u]) IN
     IF r = Ok
     THEN LET updated_task ==
                TaskRepository_change_owner(tasks[task_id], new_owner_id) IN
          /\ tasks' = Put(tasks, task_id, updated_task)
          /\ resp' = Resp(Ok, {updated_task})
     ELSE /\ resp' = Resp(r, {})
          /\ tasks' = tasks
  /\ UNCHANGED <<users, comments, notifications, next_task_id,
                 next_comment_id, next_notification_id, now>>

\* mutant: the lookup ignores the owner
get_by_id_any_owner(id, owner_id) ==
  {tasks[t] : t \in {i \in DOMAIN tasks : i = id}}

\* GET /tasks/{task_id} and TaskService.get_task_by_id_for_user
TaskRepository_get_by_id_and_owner(id, owner_id) ==
  {tasks[t] : t \in {i \in DOMAIN tasks :
                        i = id /\ tasks[i].owner_id = owner_id}}

read_task(u, task_id) ==
  /\ get_current_user(u)
  /\ LET task == TaskRepository_get_by_id_and_owner(task_id, u) IN
     resp' = IF task = {}
             THEN Resp(Err(404, ERROR_TASK_NOT_FOUND), {})
             ELSE Resp(Ok, task)
  /\ UNCHANGED <<users, tasks, comments, notifications, next_task_id,
                 next_comment_id, next_notification_id, now>>

\* SELECT ... OFFSET skip LIMIT limit without ORDER BY: any limit rows of
\* those left after skipping skip of them
Page(rows, skip, limit) ==
  {S \in SUBSET rows :
     Cardinality(S) = Min(limit, Max(0, Cardinality(rows) - skip))}

TaskRepository_get_multi_by_owner(owner_id) ==
  {tasks[t] : t \in {i \in DOMAIN tasks : tasks[i].owner_id = owner_id}}
TaskRepository_get_all == {tasks[t] : t \in DOMAIN tasks}

\* mutant: the role is not looked at
get_tasks_for_user_rows_flag_only(user, only_mine) ==
  IF only_mine
  THEN TaskRepository_get_multi_by_owner(user.id)
  ELSE TaskRepository_get_all

get_tasks_for_user_rows(user, only_mine) ==
  IF only_mine \/ user.role # OWNER
  THEN TaskRepository_get_multi_by_owner(user.id)
  ELSE TaskRepository_get_all

read_tasks(u, skip, limit, only_mine) ==
  /\ get_current_user(u)
  /\ \E page \in Page(get_tasks_for_user_rows(users[u], only_mine),
                      skip, limit) :
       resp' = Resp(Ok, page)
  /\ UNCHANGED <<users, tasks, comments, notifications, next_task_id,
                 next_comment_id, next_notification_id, now>>

\* ------------------------------------------------------- comment service
CommentRepository_get_by_task(task_id) ==
  {comments[c] : c \in CommentsOfTask(task_id)}

\* CommentCreate(**body): the schema keeps content and drops any other key
CommentCreate(body) == [content |-> body.content]

\* mutant: the comment is attributed to the task's owner
CommentRepository_create_for_task_owner(task_id, author_id, comment_in) ==
  [id |-> next_comment_id, content |-> comment_in.content,
   task_id |-> task_id, author_id |-> tasks[task_id].owner_id]

CommentRepository_create(task_id, author_id, comment_in) ==
  [id |-> next_comment_id, content |-> comment_in.content,
   task_id |-> task_id, author_id |-> author_id]

CommentRepository_update(comment, comment_in) ==
  [comment EXCEPT !.content = comment_in.content]

\* the task lookup and access check shared by get_task_comments and
\* create_comment
task_access_check(task_id, current_user) ==
  IF task_id \notin DOMAIN tasks THEN Err(404, ERROR_TASK_NOT_FOUND)
  ELSE require_task_access(current_user, tasks[task_id])

get_task_comments(u, task_id, skip, limit) ==
  /\ get_current_user(u)
  /\ LET r == task_access_check(task_id, users[u]) IN
     IF r = Ok
     THEN \E page \in Page(CommentRepository_get_by_task(task_id),
                           skip, limit) :
            resp' = Resp(Ok, page)
     ELSE resp' = Resp(r, {})
  /\ UNCHANGED <<users, tasks, comments, notifications, next_task_id,
                 next_comment_id, next_notification_id, now>>

create_comment(u, task_id, comment_in) ==
  /\ get_current_user(u)
  /\ LET r == task_access_check(task_id, users[u]) IN
     IF r = Ok
     THEN /\ comments' = Put(comments, next_comment_id,
                             CommentRepository_create(task_id, u, comment_in))
          /\ next_comment_id' = next_comment_id + 1
          /\ resp' = Resp(Err(201, ""),
                          {CommentRepository_create(task_id, u, comment_in)})
     ELSE /\ resp' = Resp(r, {})
          /\ UNCHANGED <<comments, next_comment_id>>
  /\ UNCHANGED <<users, tasks, notifications, next_task_id,
                 next_notification_id, now>>

\* mutant: the update asks for access to the comment's task first
update_comment_check_task_access(comment_id, current_user) ==
  IF comment_id \notin DOMAIN comments
  THEN Err(404, ERROR_COMMENT_NOT_FOUND)
  ELSE IF task_access_check(comments[comment_id].task_id, current_user) # Ok
  THEN task_access_check(comments[comment_id].task_id, current_user)
  ELSE require_comment_modification(current_user, comments[comment_id])

update_comment_check(comment_id, current_user) ==
  IF comment_id \notin DOMAIN comments
  THEN Err(404, ERROR_COMMENT_NOT_FOUND)
  ELSE require_comment_modification(current_user, comments[comment_id])

update_comment(u, comment_id, comment_in) ==
  /\ get_current_user(u)
  /\ LET r == update_comment_check(comment_id, users[u]) IN
     IF r = Ok
     THEN LET updated_comment ==
                CommentRepository_update(comments[comment_id], comment_in) IN
          /\ comments' = Put(comments, comment_id, updated_comment)
          /\ resp' = Resp(Ok, {updated_comment})
     ELSE /\ resp' = Resp(r, {})
          /\ comments' = comments
  /\ UNCHANGED <<users, tasks, notifications, next_task_id,
                 next_comment_id, next_notification_id, now>>

delete_comment_check(comment_id, current_user) ==
  IF comment_id \notin DOMAIN comments
  THEN Err(404, ERROR_COMMENT_NOT_FOUND)
  ELSE require_comment_deletion(current_user, comments[comment_id])

\* mutant: the row is deleted before the permission check
delete_comment_before_check(u, comment_id) ==
  /\ get_current_user(u)
  /\ LET r == delete_comment_check(comment_id, users[u]) IN
     /\ resp' = Resp(IF r = Ok THEN Err(204, "") ELSE r, {})
     /\ comments' = Drop(comments, {comment_id})
  /\ UNCHANGED <<users, tasks, notifications, next_task_id,
                 next_comment_id, next_notification_id, now>>

delete_comment(u, comment_id) ==
  /\ get_current_user(u)
  /\ LET r == delete_comment_check(comment_id, users[u]) IN
     /\ resp' = Resp(IF r = Ok THEN Err(204, "") ELSE r, {})
     /\ comments' = IF r = Ok THEN Drop(comments, {comment_id})
                    ELSE comments
  /\ UNCHANGED <<users, tasks, notifications, next_task_id,
                 next_comment_id, next_notification_id, now>>

\* -------------------------------------------------- notification service
notification_access_check(notification_id, current_user) ==
  IF notification_id \notin DOMAIN notifications
  THEN Err(404, ERROR_NOTIFICATION_NOT_FOUND)
  ELSE require_notification_access(current_user,
                                   notifications[notification_id])

\* mutant: marking flips the flag
mark_as_read_toggle(notification) ==
  [notification EXCEPT !.is_read = ~@]

NotificationRepository_mark_as_read(notification) ==
  [notification EXCEPT !.is_read = TRUE]

mark_notification_as_read(u, notification_id) ==
  /\ get_current_user(u)
  /\ LET r == notification_access_check(notification_id, users[u]) IN
     IF r = Ok
     THEN LET updated_notification ==
                NotificationRepository_mark_as_read(
                  notifications[notification_id]) IN
          /\ notifications' = Put(notifications, notification_id,
                                  updated_notification)
          /\ resp' = Resp(Ok, {updated_notification})
     ELSE /\ resp' = Resp(r, {})
          /\ notifications' = notifications
  /\ UNCHANGED <<users, tasks, comments, next_task_id, next_comment_id,
                 next_notification_id, now>>

delete_notification(u, notification_id) ==
  /\ get_current_user(u)
  /\ LET r == notification_access_check(notification_id, users[u]) IN
     /\ resp' = Resp(IF r = Ok THEN Err(204, "") ELSE r, {})
     /\ notifications' = IF r = Ok
                         THEN Drop(notifications, {notification_id})
                         ELSE notifications
  /\ UNCHANGED <<users, tasks, comments, next_task_id, next_comment_id,
                 next_notification_id, now>>

\* ORDER BY created_at DESC OFFSET skip LIMIT limit: ids grow with the time
\* of creation, so the newest rows are those with the greatest ids
NewestFirst(ids, skip, limit) ==
  {i \in ids :
     LET rank == Cardinality({j \in ids : j >= i}) IN
     rank > skip /\ rank <= skip + limit}

\* mutant: the query is not scoped to the user
get_user_notifications_unscoped(user_id, unread_only, skip, limit) ==
  {notifications[n] :
     n \in NewestFirst({i \in DOMAIN notifications :
                          unread_only => ~notifications[i].is_read},
                       skip, limit)}

NotificationRepository_get_user_notifications(user_id, unread_only, skip, limit) ==
  {notifications[n] :
     n \in NewestFirst({i \in DOMAIN notifications :
                          /\ notifications[i].user_id = user_id
                          /\ unread_only => ~notifications[i].is_read},
                       skip, limit)}

NotificationRepository_count_unread(user_id) ==
  Cardinality({i \in DOMAIN notifications :
                 /\ notifications[i].user_id = user_id
                 /\ notifications[i].is_read = FALSE})

get_user_notifications(u, unread_only, skip, limit) ==
  /\ get_current_user(u)
  /\ resp' = Resp(Ok, NotificationRepository_get_user_notifications(
                        u, unread_only, skip, limit))
  /\ UNCHANGED <<users, tasks, comments, notifications, next_task_id,
                 next_comment_id, next_notification_id, now>>

\* GET /notifications/unread-count
count_unread_notifications(u) ==
  /\ get_current_user(u)
  /\ resp' = Resp(Ok, {[unread_count |->
                          NotificationRepository_count_unread(u)]})
  /\ UNCHANGED <<users, tasks, comments, notifications, next_task_id,
                 next_comment_id, next_notification_id, now>>

\* ------------------------------------------------------- due-date scan
\* now.replace(hour=23, minute=59, second=59, microsecond=999999): the last
\* tick of the day of n
today_end(n) == (n \div DayLen) * DayLen + (DayLen - 1)
tomorrow_end(n) == today_end(n) + DayLen

\* mutant: the duplicate check looks at the read notifications
exists_for_task_and_type_read(notifs, task_id, notification_type) ==
  Cardinality({n \in DOMAIN notifs :
                 /\ notifs[n].task_id = task_id
                 /\ notifs[n].notification_type = notification_type
                 /\ notifs[n].is_read = TRUE}) > 0

\* mutant: no duplicate check at all
exists_for_task_and_type_never(notifs, task_id, notification_type) ==
  FALSE

\* mutant: the duplicate check counts read notifications too
exists_for_task_and_type_any(notifs, task_id, notification_type) ==
  Cardinality({n \in DOMAIN notifs :
                 /\ notifs[n].task_id = task_id
                 /\ notifs[n].notification_type = notification_type}) > 0

NotificationRepository_exists_for_task_and_type(notifs, task_id, notification_type) ==
  Cardinality({n \in DOMAIN notifs :
                 /\ notifs[n].task_id = task_id
                 /\ notifs[n].notification_type = notification_type
                 /\ notifs[n].is_read = FALSE}) > 0

\* mutant: a notification is born read
NotificationRepository_create_read(id, user_id, task_id, notification_type, message) ==
  [id |-> id, user_id |-> user_id, task_id |-> task_id,
   notification_type |-> notification_type, message |-> message,
   is_read |-> TRUE]

NotificationRepository_create(id, user_id, task_id, notification_type, message) ==
  [id |-> id, user_id |-> user_id, task_id |-> task_id,
   notification_type |-> notification_type, message |-> message,
   is_read |-> FALSE]

\* mutant: a new notification marks the task's older ones as read
ScanBranch_supersede(st, task, notification_type, text) ==
  IF ~NotificationRepository_exists_for_task_and_type(
        st.notifs, task.id, notification_type)
  THEN [notifs |-> Put([n \in DOMAIN st.notifs |->
                          IF st.notifs[n].task_id = task.id
                          THEN [st.notifs[n] EXCEPT !.is_read = TRUE]
                          ELSE st.notifs[n]],
                       st.next,
                       NotificationRepository_create(
                         st.next, task.owner_id, task.id, notification_type,
                         <<"Task '", task.title, text>>)),
        next |-> st.next + 1,
        created |-> [st.created EXCEPT ![notification_type] = @ + 1]]
  ELSE st

\* one branch of the scan loop: the existence check, then the create.
\* st = [notifs, next, created]: the table, its id sequence and the
\* notifications_created counters
ScanBranch(st, task, notification_type, text) ==
  IF ~NotificationRepository_exists_for_task_and_type(
        st.notifs, task.id, notification_type)
  THEN [notifs |-> Put(st.notifs, st.next,
                       NotificationRepository_create(
                         st.next, task.owner_id, task.id, notification_type,
                         <<"Task '", task.title, text>>)),
        next |-> st.next + 1,
        created |-> [st.created EXCEPT ![notification_type] = @ + 1]]
  ELSE st

\* mutant: a task due at the last instant of today is not due today
ScanTask_today_end_excluded(st, task, n) ==
  LET task_due_date == Val(task.due_date) IN
  IF task_due_date < n
  THEN ScanBranch(st, task, OVERDUE, "' is overdue")
  ELSE IF n <= task_due_date /\ task_due_date < today_end(n)
  THEN ScanBranch(st, task, DUE_TODAY, "' is due today")
  ELSE IF today_end(n) < task_due_date /\ task_due_date <= tomorrow_end(n)
  THEN ScanBranch(st, task, DUE_SOON, "' is due soon")
  ELSE st

\* the body of "for task in tasks"
ScanTask(st, task, n) ==
  LET task_due_date == Val(task.due_date) IN
  IF task_due_date < n
  THEN ScanBranch(st, task, OVERDUE, "' is overdue")
  ELSE IF n <= task_due_date /\ task_due_date <= today_end(n)
  THEN ScanBranch(st, task, DUE_TODAY, "' is due today")
  ELSE IF today_end(n) < task_due_date /\ task_due_date <= tomorrow_end(n)
  THEN ScanBranch(st, task, DUE_SOON, "' is due soon")
  ELSE st

RECURSIVE ScanLoop(_, _, _)
ScanLoop(st, order, n) ==
  IF order = <<>> THEN st
  ELSE ScanLoop(ScanTask(st, tasks[Head(order)], n), Tail(order), n)

\* mutant: completed tasks are scanned too
ScanTasks_any_status ==
  {t \in DOMAIN tasks : tasks[t].due_date # None}

\* select(Task).where(due_date IS NOT NULL).where(status != DONE)
ScanTasks ==
  {t \in DOMAIN tasks : tasks[t].due_date # None /\ tasks[t].status # DONE}

\* the query has no ORDER BY: the rows come in any order
Orders(S) ==
  {o \in [1..Cardinality(S) -> S] :
     \A i, j \in 1..Cardinality(S) : i # j => o[i] # o[j]}

generate_due_date_notifications(order) ==
  ScanLoop([notifs |-> notifications, next |-> next_notification_id,
            created |-> [ty \in NotificationType |-> 0]],
           order, now)

\* POST /notifications/check-due-dates
check_due_dates(u) ==
  /\ get_current_user(u)
  /\ IF users[u].role # OWNER
     THEN /\ resp' = Resp(Err(403, ERROR_INSUFFICIENT_PERMISSIONS), {})
          /\ UNCHANGED <<notifications, next_notification_id>>
     ELSE \E order \in Orders(ScanTasks) :
            LET st == generate_due_date_notifications(order) IN
            /\ notifications' = st.notifs
            /\ next_notification_id' = st.next
            /\ resp' = Resp(Ok, {[notifications_created |-> st.created,
                                   total |-> st.created[DUE_TODAY]
                                             + st.created[DUE_SOON]
                                             + st.created[OVERDUE]]})
  /\ UNCHANGED <<users, tasks, comments, next_task_id, next_comment_id, now>>

\* time passes between calls
Tick ==
  /\ now < MaxTime
  /\ now' = now + 1
  /\ UNCHANGED <<users, tasks, comments, notifications, next_task_id,
                 next_comment_id, next_notification_id, resp, req, calls>>

\* ------------------------------------------------------- request inputs
\* users 1..4 exist from the start (1 has the OWNER role, 4 is inactive)
UserIds == 1..5
TaskIds == 1..(MaxTasks + 1)
CommentIds == 1..(MaxComments + 1)

\* the history variable: the last call, its caller, the id in its path and
\* its body or query parameters
Record(op, u, id, arg) ==
  /\ req' = [op |-> op, user |-> u, id |-> id, arg |-> arg]
  /\ calls' = calls

\* ---------------------------------------- tasks, notifications and time
\* A due date at the start of the second day: as the clock advances the
\* task is due soon, then due today, then overdue.
ScanUsers == {1, 2}
ScanDueDates == {None, Some(DayLen)}
ScanCreates ==
  {[title |-> "a", description |-> None, status |-> TODO, due_date |-> d] :
     d \in ScanDueDates}
ScanUpdates ==
  {[status |-> st] : st \in {TODO, DONE}}
    \cup {[due_date |-> d] : d \in ScanDueDates}

\* a scan records when it ran and whether the call before it was a scan at
\* the same time
RecordScan(u) ==
  /\ req' = [op |-> "check_due_dates", user |-> u, at |-> now,
             again |-> /\ req.op = "check_due_dates"
                       /\ users[req.user].role = OWNER
                       /\ req.at = now]
  /\ calls' = calls
RecordOther == req' = [op |-> "other"] /\ calls' = calls

NextScan ==
  \/ \E u \in ScanUsers, task_data \in ScanCreates :
       /\ next_task_id <= MaxParentTasks
       /\ create_task(u, task_data)
       /\ RecordOther
  \/ \E u \in ScanUsers, t \in 1..MaxParentTasks, update_data \in ScanUpdates :
       update_task(u, t, update_data) /\ RecordOther
  \/ \E u \in ScanUsers, t \in 1..MaxParentTasks :
       delete_task(u, t) /\ RecordOther
  \/ \E u \in ScanUsers, t \in 1..MaxParentTasks, o \in ScanUsers :
       change_task_owner(u, t, o) /\ RecordOther
  \/ \E u \in ScanUsers, n \in 1..MaxNotifications :
       mark_notification_as_read(u, n) /\ RecordOther
  \/ \E u \in ScanUsers, n \in 1..MaxNotifications :
       delete_notification(u, n) /\ RecordOther
  \/ \E u \in ScanUsers :
       /\ check_due_dates(u)
       /\ next_notification_id' <= MaxNotifications + 1
       /\ RecordScan(u)
  \/ Tick

SpecScan == Init /\ [][NextScan]_vars

\* ------------------------------------------------------------- claims
UnreadOf(task_id, notification_type) ==
  {n \in DOMAIN notifications :
     /\ notifications[n].task_id = task_id
     /\ notifications[n].notification_type = notification_type
     /\ ~notifications[n].is_read}

\* C1: a scan that directly follows a scan made at the same time creates
\* nothing: each of its three counts, and so its total, is 0.
C1_SecondScanCreatesNothing ==
  (req.op = "check_due_dates" /\ users[req.user].role = OWNER /\ req.again)
    => /\ resp.status = 200
       /\ resp.result # {}
       /\ \A body \in resp.result :
            /\ \A ty \in NotificationType : body.notifications_created[ty] = 0
            /\ body.total = 0

\* a second scan has run and found an open task whose notification the
\* first scan had left unread
C1_Witness ==
  /\ req.op = "check_due_dates" /\ req.again
  /\ \E body \in resp.result : body.total = 0
  /\ \E t \in ScanTasks, ty \in NotificationType : UnreadOf(t, ty) # {}

\* C2: with calls made one at a time, there is never more than one unread
\* notification of a given task and type.
C2_AtMostOneUnreadPerTaskAndType ==
  \A t \in 1..MaxParentTasks, ty \in NotificationType :
    Cardinality(UnreadOf(t, ty)) <= 1

\* a scan has created a second notification of a task and type after the
\* first one was read
C2_Witness ==
  \E n, m \in DOMAIN notifications :
    /\ notifications[n].task_id = notifications[m].task_id
    /\ notifications[n].notification_type = notifications[m].notification_type
    /\ notifications[n].is_read
    /\ ~notifications[m].is_read

\* ------------------------------------------------------------ tasks only
TaskCreates ==
  {[title |-> ti, description |-> None, status |-> TODO, due_date |-> None] :
     ti \in {"a", "b"}}
TaskUpdates == {[title |-> "b"], [status |-> DONE]}
Skips == {0, 1}
Limits == {1, DEFAULT_PAGE_SIZE}

NextTask ==
  \/ \E u \in UserIds, task_data \in TaskCreates :
       /\ next_task_id <= MaxTasks
       /\ create_task(u, task_data)
       /\ Record("create_task", u, 0, task_data)
  \/ \E u \in UserIds, t \in TaskIds, update_data \in TaskUpdates :
       update_task(u, t, update_data)
         /\ Record("update_task", u, t, update_data)
  \/ \E u \in UserIds, t \in TaskIds :
       delete_task(u, t) /\ Record("delete_task", u, t, None)
  \/ \E u \in UserIds, t \in TaskIds, o \in UserIds :
       change_task_owner(u, t, o) /\ Record("change_task_owner", u, t, o)
  \/ \E u \in UserIds, t \in TaskIds :
       read_task(u, t) /\ Record("read_task", u, t, None)
  \/ \E u \in UserIds, skip \in Skips, limit \in Limits,
        only_mine \in BOOLEAN :
       /\ read_tasks(u, skip, limit, only_mine)
       /\ Record("read_tasks", u, 0,
                 [skip |-> skip, limit |-> limit, only_mine |-> only_mine])

SpecTask == Init /\ [][NextTask]_vars

NotFound(msg) == Resp(Err(404, msg), {})

C8_ChangeOwnerCheckOrder ==
  [][(req'.op = "change_task_owner") =>
       IF users[req'.user].role # OWNER
       THEN /\ resp' = Resp(Err(403, ERROR_OWNER_ROLE_REQUIRED), {})
            /\ tasks' = tasks
       ELSE IF req'.id \notin DOMAIN tasks
       THEN resp' = NotFound(ERROR_TASK_NOT_FOUND) /\ tasks' = tasks
       ELSE IF req'.arg \notin DOMAIN users
       THEN resp' = NotFound(ERROR_NEW_OWNER_NOT_FOUND) /\ tasks' = tasks
       ELSE IF ~users[req'.arg].is_active
       THEN /\ resp' = Resp(Err(400, ERROR_ASSIGN_INACTIVE_USER), {})
            /\ tasks' = tasks
       ELSE /\ resp'.status = 200
            /\ tasks'[req'.id].owner_id = req'.arg]_vars

\* a MEMBER got 403 for a task and a new owner that both do not exist
C8_Witness ==
  /\ req.op = "change_task_owner"
  /\ users[req.user].role = MEMBER
  /\ req.id \notin DOMAIN tasks
  /\ req.arg \notin DOMAIN users
  /\ resp.status = 403

\* C9: GET of one task returns it only to the user it belongs to; every
\* other caller, the OWNER role included, gets 404 'Task not found', while
\* an OWNER-role caller's update or delete of that task goes through.
C9_ReadOnlyByOwner ==
  [][/\ (req'.op = "read_task") =>
          resp' = IF /\ req'.id \in DOMAIN tasks
                     /\ tasks[req'.id].owner_id = req'.user
                  THEN Resp(Ok, {tasks[req'.id]})
                  ELSE NotFound(ERROR_TASK_NOT_FOUND)
     /\ (/\ req'.op \in {"update_task", "delete_task"}
         /\ req'.id \in DOMAIN tasks
         /\ users[req'.user].role = OWNER) =>
          resp'.status \in {200, 204}]_vars

\* an OWNER-role caller was refused the read of another user's task
C9_Witness ==
  /\ req.op = "read_task"
  /\ users[req.user].role = OWNER
  /\ req.id \in DOMAIN tasks
  /\ tasks[req.id].owner_id # req.user
  /\ resp = NotFound(ERROR_TASK_NOT_FOUND)

OwnTasks(u) == {tasks[t] : t \in {i \in DOMAIN tasks : tasks[i].owner_id = u}}
AllTasks == {tasks[t] : t \in DOMAIN tasks}

\* C10: the list a MEMBER gets holds only the caller's tasks whatever
\* only_mine is; the list an OWNER-role caller gets is drawn from all tasks
\* when only_mine is false and from the caller's tasks when it is true.  The
\* list is the whole of that selection when the page (skip, limit) covers it.
C10_ListScope ==
  [][(req'.op = "read_tasks") =>
       LET scope == IF users[req'.user].role = MEMBER \/ req'.arg.only_mine
                    THEN OwnTasks(req'.user) ELSE AllTasks
       IN /\ resp'.status = 200
          /\ resp'.result \subseteq scope
          /\ (req'.arg.skip = 0 /\ req'.arg.limit >= Cardinality(scope))
               => resp'.result = scope]_vars

\* an OWNER-role caller listed without only_mine and got a task of another
\* user, and there is also a task of the caller's own
C10_Witness ==
  /\ req.op = "read_tasks"
  /\ users[req.user].role = OWNER
  /\ ~req.arg.only_mine
  /\ \E row \in resp.result : row.owner_id # req.user
  /\ OwnTasks(req.user) # {}

\* ------------------------------------------------- comments on one task
NotificationIds == 1..(MaxNotifications + 1)
ParentTaskIds == 1..(MaxParentTasks + 1)
CommentTaskCreates ==
  {[title |-> "a", description |-> None, status |-> TODO, due_date |-> None]}

\* a comment call also records the comment as it was before the call
RecordComment(op, u, id, arg) ==
  /\ req' = [op |-> op, user |-> u, id |-> id, arg |-> arg,
             target |-> IF id \in DOMAIN comments THEN Some(comments[id])
                        ELSE None]
  /\ calls' = calls

NextComment ==
  \/ \E u \in UserIds, task_data \in CommentTaskCreates :
       /\ next_task_id <= MaxParentTasks
       /\ create_task(u, task_data)
       /\ Record("create_task", u, 0, task_data)
  \/ \E u \in UserIds, t \in ParentTaskIds, o \in UserIds :
       change_task_owner(u, t, o) /\ Record("change_task_owner", u, t, o)
  \/ \E u \in UserIds, t \in ParentTaskIds :
       delete_task(u, t) /\ Record("delete_task", u, t, None)
  \/ \E u \in UserIds, t \in ParentTaskIds, skip \in Skips, limit \in Limits :
       /\ get_task_comments(u, t, skip, limit)
       /\ Record("get_task_comments", u, t, [skip |-> skip, limit |-> limit])
  \/ \E u \in UserIds, t \in ParentTaskIds :
       /\ next_comment_id <= MaxComments
       /\ create_comment(u, t, [content |-> "x"])
       /\ Record("create_comment", u, t, [content |-> "x"])
  \/ \E u \in UserIds, c \in CommentIds :
       /\ update_comment(u, c, [content |-> "y"])
       /\ RecordComment("update_comment", u, c, [content |-> "y"])
  \/ \E u \in UserIds, c \in CommentIds :
       delete_comment(u, c) /\ RecordComment("delete_comment", u, c, None)

SpecComment == Init /\ [][NextComment]_vars

\* the caller of the recorded call may not access the existing task it names
TaskAccessDenied(r) ==
  /\ r.op \in {"get_task_comments", "create_comment"}
  /\ r.id \in DOMAIN tasks
  /\ tasks[r.id].owner_id # r.user
  /\ users[r.user].role # OWNER

C7_DenialIs403 ==
  [][/\ (/\ req'.op \in {"update_comment", "delete_comment"}
         /\ req'.id \in DOMAIN comments
         /\ comments[req'.id].author_id # req'.user
         /\ users[req'.user].role = MEMBER) => resp'.status = 403
     /\ (/\ req'.op \in {"mark_notification_as_read", "delete_notification"}
         /\ req'.id \in DOMAIN notifications
         /\ notifications[req'.id].user_id # req'.user) =>
          resp'.status = 403]_vars

\* a MEMBER who is not the author was refused the update of a comment
C7_Witness ==
  /\ req.op = "update_comment"
  /\ users[req.user].role = MEMBER
  /\ \E c \in req.target : c.author_id # req.user
  /\ resp = NotFound(ERROR_COMMENT_NOT_FOUND)
  /\ req.id \in DOMAIN comments

\* --------------------------------------------------- one user's inbox
InboxTaskCreates ==
  {[title |-> "a", description |-> None, status |-> TODO,
    due_date |-> Some(0)]}

NextInbox ==
  \/ \E u \in UserIds, task_data \in InboxTaskCreates :
       /\ next_task_id <= MaxParentTasks
       /\ create_task(u, task_data)
       /\ Record("create_task", u, 0, task_data)
  \/ \E u \in UserIds, t \in ParentTaskIds, o \in UserIds :
       change_task_owner(u, t, o) /\ Record("change_task_owner", u, t, o)
  \/ \E u \in UserIds :
       /\ check_due_dates(u)
       /\ next_notification_id' <= MaxNotifications + 1
       /\ Record("check_due_dates", u, 0, None)
  \/ \E u \in UserIds, n \in NotificationIds :
       /\ mark_notification_as_read(u, n)
       /\ Record("mark_notification_as_read", u, n, None)
  \/ \E u \in UserIds, n \in NotificationIds :
       delete_notification(u, n) /\ Record("delete_notification", u, n, None)

SpecInbox == Init /\ [][NextInbox]_vars

ServiceUsers == {1, 2}
ServiceNewOwners == {3, 4, 5}
ServiceTaskCreates ==
  {[title |-> "a", description |-> None, status |-> TODO,
    due_date |-> Some(0)]}
ServiceTaskUpdates ==
  {[status |-> DONE], [title |-> "b", description |-> Some("d")]}

\* a request body may carry keys the schema does not have
ServiceCommentBodies ==
  {[content |-> "x"], [content |-> "x", author_id |-> 1]}

\* a task call also records the comments and the notifications the task
\* had before the call
RecordTask(op, u, id, arg) ==
  /\ req' = [op |-> op, user |-> u, id |-> id, arg |-> arg,
             had_comments |-> CommentsOfTask(id),
             had_notifications |-> NotificationsOfTask(id)]
  /\ calls' = calls

NextService ==
  \/ \E u \in ServiceUsers, task_data \in ServiceTaskCreates :
       /\ next_task_id <= MaxParentTasks
       /\ create_task(u, task_data)
       /\ Record("create_task", u, 0, task_data)
  \/ \E u \in ServiceUsers, t \in ParentTaskIds, update_data \in ServiceTaskUpdates :
       update_task(u, t, update_data)
         /\ RecordTask("update_task", u, t, update_data)
  \/ \E u \in ServiceUsers, t \in ParentTaskIds :
       delete_task(u, t) /\ RecordTask("delete_task", u, t, None)
  \/ \E u \in ServiceUsers, t \in ParentTaskIds, o \in ServiceNewOwners :
       change_task_owner(u, t, o) /\ RecordTask("change_task_owner", u, t, o)
  \/ \E u \in ServiceUsers, t \in ParentTaskIds, body \in ServiceCommentBodies :
       /\ next_comment_id <= MaxServiceComments
       /\ create_comment(u, t, CommentCreate(body))
       /\ Record("create_comment", u, t, body)
  \/ \E u \in ServiceUsers, c \in 1..(MaxServiceComments + 1) :
       /\ update_comment(u, c, [content |-> "y"])
       /\ RecordComment("update_comment", u, c, [content |-> "y"])
  \/ \E u \in ServiceUsers, c \in 1..(MaxServiceComments + 1) :
       delete_comment(u, c) /\ RecordComment("delete_comment", u, c, None)
  \/ \E u \in ServiceUsers :
       /\ check_due_dates(u)
       /\ next_notification_id' <= MaxServiceNotifications + 1
       /\ Record("check_due_dates", u, 0, None)
  \/ \E u \in ServiceUsers, n \in 1..(MaxServiceNotifications + 1) :
       /\ mark_notification_as_read(u, n)
       /\ Record("mark_notification_as_read", u, n, None)
  \/ \E u \in ServiceUsers, n \in 1..(MaxServiceNotifications + 1) :
       delete_notification(u, n) /\ Record("delete_notification", u, n, None)

SpecService == Init /\ [][NextService]_vars

\* ----------------------------------- updates of tasks that have children
\* Two tasks due today, each with comments and scan notifications; no call
\* removes anything.
UpdateTaskUpdates ==
  {[status |-> DONE], [title |-> "b", description |-> Some("d")],
   [due_date |-> None]}

NextUpdate ==
  \/ \E u \in ServiceUsers, task_data \in ServiceTaskCreates :
       /\ next_task_id <= MaxTasks
       /\ create_task(u, task_data)
       /\ Record("create_task", u, 0, task_data)
  \/ \E u \in ServiceUsers, t \in TaskIds :
       /\ next_comment_id <= MaxServiceComments
       /\ create_comment(u, t, [content |-> "x"])
       /\ Record("create_comment", u, t, [content |-> "x"])
  \/ \E u \in ServiceUsers :
       /\ check_due_dates(u)
       /\ next_notification_id' <= MaxServiceNotifications + 1
       /\ Record("check_due_dates", u, 0, None)
  \/ \E u \in ServiceUsers, t \in TaskIds, update_data \in UpdateTaskUpdates :
       update_task(u, t, update_data)
         /\ Record("update_task", u, t, update_data)

SpecUpdate == Init /\ [][NextUpdate]_vars

\* C11: a successful update_task writes the fields the request carries and
\* no other: the task's remaining fields, every other task, every comment,
\* every notification and every user stay as they were.
C11_UpdateFrame ==
  [][(req'.op = "update_task" /\ resp'.status = 200) =>
       /\ DOMAIN tasks' = DOMAIN tasks
       /\ \A f \in DOMAIN tasks[req'.id] :
            tasks'[req'.id][f] = IF f \in DOMAIN req'.arg THEN req'.arg[f]
                                 ELSE tasks[req'.id][f]
       /\ \A t \in DOMAIN tasks \ {req'.id} : tasks'[t] = tasks[t]
       /\ comments' = comments
       /\ notifications' = notifications
       /\ users' = users]_vars

\* an update carrying only the status succeeded on a task that has a
\* description, a due date, a comment and a notification, next to another
\* task
C11_Witness ==
  /\ req.op = "update_task"
  /\ req.arg = [status |-> DONE]
  /\ resp.status = 200
  /\ tasks[req.id].status = DONE
  /\ tasks[req.id].title = "b"
  /\ tasks[req.id].description = Some("d")
  /\ tasks[req.id].due_date = Some(0)
  /\ CommentsOfTask(req.id) # {}
  /\ NotificationsOfTask(req.id) # {}
  /\ DOMAIN tasks # {req.id}

\* ------------------------------------------ due dates against the clock
\* Due dates from the first instant to the first instant of the day after
\* tomorrow, scanned as the clock advances.
BucketDueDates == {Some(d) : d \in 0..(2 * DayLen)}
BucketCreates ==
  {[title |-> "a", description |-> None, status |-> TODO, due_date |-> d] :
     d \in BucketDueDates}

NextBucket ==
  \/ \E task_data \in BucketCreates :
       /\ next_task_id <= MaxTasks
       /\ create_task(1, task_data)
       /\ Record("create_task", 1, 0, task_data)
  \/ \E u \in ServiceUsers :
       /\ check_due_dates(u)
       /\ next_notification_id' <= MaxNotifications + 1
       /\ Record("check_due_dates", u, 0, None)
  \/ \E n \in 1..MaxNotifications :
       /\ mark_notification_as_read(1, n)
       /\ Record("mark_notification_as_read", 1, n, None)
  \/ Tick

SpecBucket == Init /\ [][NextBucket]_vars

\* the four cases of a due date at time n, first match first
Bucket(due, n) ==
  IF due < n THEN OVERDUE
  ELSE IF n <= due /\ due <= today_end(n) THEN DUE_TODAY
  ELSE IF today_end(n) < due /\ due <= tomorrow_end(n) THEN DUE_SOON
  ELSE "none"

\* the notifications a step has created for a task (the clock stands
\* still during a call: a step with now' = now is a call)
CreatedFor(t) ==
  {notifications'[n] :
     n \in {i \in DOMAIN notifications' \ DOMAIN notifications :
              notifications'[i].task_id = t}}

C13_NoScanOfDoneOrUndated ==
  [][(req'.op = "check_due_dates" /\ now' = now) =>
       /\ \A n \in DOMAIN notifications :
            n \in DOMAIN notifications' /\ notifications'[n] = notifications[n]
       /\ \A n \in DOMAIN notifications' \ DOMAIN notifications :
            LET t == notifications'[n].task_id IN
            /\ t \in DOMAIN tasks
            /\ tasks[t].status # DONE
            /\ tasks[t].due_date # None]_vars

\* a scan ran over an overdue task that is DONE and whose notifications
\* have all been read, and created nothing
C13_Witness ==
  /\ req.op = "check_due_dates"
  /\ users[req.user].role = OWNER
  /\ \E body \in resp.result : body.total = 0
  /\ \E t \in DOMAIN tasks :
       /\ tasks[t].status = DONE
       /\ tasks[t].due_date # None
       /\ Val(tasks[t].due_date) < now
       /\ NotificationsOfTask(t) # {}
       /\ \A n \in NotificationsOfTask(t) : notifications[n].is_read

\* C14: every comment and every notification references a task that
\* exists: deleting a task removes its comments and notifications with it.
C14_ChildrenHaveTask ==
  /\ \A c \in DOMAIN comments : comments[c].task_id \in DOMAIN tasks
  /\ \A n \in DOMAIN notifications :
       notifications[n].task_id \in DOMAIN tasks

\* a task that had a comment and a notification has just been deleted
C14_Witness ==
  /\ req.op = "delete_task"
  /\ resp.status = 204
  /\ req.had_comments # {}
  /\ req.had_notifications # {}
  /\ req.id \notin DOMAIN tasks
  /\ CommentsOfTask(req.id) = {}

\* C15: a new comment's author_id is the caller, whatever the request body
\* carries, and no call changes the author_id of a comment: update_comment
\* changes the content only and change_task_owner changes no comment.
C15_AuthorImmutable ==
  [][/\ (req'.op = "create_comment" /\ resp'.status = 201) =>
          /\ Cardinality(DOMAIN comments' \ DOMAIN comments) = 1
          /\ \A c \in DOMAIN comments' \ DOMAIN comments :
               /\ comments'[c].author_id = req'.user
               /\ comments'[c].task_id = req'.id
               /\ comments'[c].content = req'.arg.content
     /\ \A c \in DOMAIN comments \cap DOMAIN comments' :
          comments'[c].author_id = comments[c].author_id
     /\ (req'.op = "update_comment" /\ resp'.status = 200) =>
          comments' = [comments EXCEPT
                         ![req'.id].content = req'.arg.content]
     /\ (req'.op = "change_task_owner") => comments' = comments]_vars

\* a MEMBER's request carried the OWNER-role user's id as author_id and the
\* comment was created with the MEMBER as its author
C15_Witness ==
  /\ req.op = "create_comment"
  /\ resp.status = 201
  /\ "author_id" \in DOMAIN req.arg
  /\ req.arg.author_id # req.user
  /\ \E c \in resp.result : c.author_id = req.user /\ c.id \in DOMAIN comments

\* C16: a call that ends in 400, 403 or 404 leaves users, tasks, comments
\* and notifications as they were.
C16_FailureChangesNothing ==
  [][(resp'.status \in {400, 403, 404}) =>
       /\ users' = users
       /\ tasks' = tasks
       /\ comments' = comments
       /\ notifications' = notifications]_vars

\* a change of owner to an inactive user was refused with 400 on a task
\* that has a comment and a notification
C16_Witness ==
  /\ req.op = "change_task_owner"
  /\ resp.status = 400
  /\ req.id \in DOMAIN tasks
  /\ tasks[req.id].owner_id # req.arg
  /\ comments # <<>>
  /\ notifications # <<>>

\* C17: every task's owner_id is the id of an existing user: create_task
\* sets it to the caller, and a successful change_task_owner sets it to a
\* user that exists and is active.
C17_OwnerExists ==
  [][/\ \A t \in DOMAIN tasks' : tasks'[t].owner_id \in DOMAIN users'
     /\ (req'.op = "create_task" /\ resp'.status = 201) =>
          \A t \in DOMAIN tasks' \ DOMAIN tasks :
            tasks'[t].owner_id = req'.user
     /\ (req'.op = "change_task_owner" /\ resp'.status = 200) =>
          /\ req'.arg \in DOMAIN users
          /\ users[req'.arg].is_active
          /\ tasks'[req'.id].owner_id = req'.arg]_vars

\* the OWNER-role user has given a task to another active user
C17_Witness ==
  /\ req.op = "change_task_owner"
  /\ resp.status = 200
  /\ tasks[req.id].owner_id = req.arg
  /\ req.arg # req.user
  /\ users[req.arg].is_active

\* ------------------------------------------------------------- accounts
\* addresses already held, as held or with the domain in capitals, one that
\* differs from a held one in the case of the local part, and a new one
UserBodies ==
  {[email |-> e, role |-> r] :
     e \in {<<"a", "x">>, <<"b", "X">>, <<"A", "x">>, <<"e", "x">>},
     r \in {OWNER, MEMBER}}

NextUser ==
  \/ \E u \in 1..MaxUsers, body \in UserBodies :
       /\ Len(users) < MaxUsers
       /\ create_user(u, body)
       /\ Record("create_user", u, 0, body)
  \/ \E u \in 1..MaxUsers, task_data \in CommentTaskCreates :
       /\ next_task_id <= MaxParentTasks
       /\ create_task(u, task_data)
       /\ Record("create_task", u, 0, task_data)
  \/ \E u \in 1..MaxUsers, t \in ParentTaskIds, o \in 1..MaxUsers :
       change_task_owner(u, t, o) /\ Record("change_task_owner", u, t, o)

SpecUser == Init /\ [][NextUser]_vars

Binds(params, kwargs) == kwargs = params

CommentService_create_comment_params ==
  {"db", "task_id", "comment_in", "current_user"}
CommentService_update_comment_params ==
  {"db", "comment_id", "comment_in", "current_user"}
CommentService_delete_comment_params == {"db", "comment_id", "current_user"}

\* the keywords the endpoints pass
create_comment_kwargs == {"db", "task_id", "comment_data", "current_user"}
update_comment_kwargs == {"db", "comment_id", "comment_data", "current_user"}
delete_comment_kwargs == {"db", "comment_id", "current_user"}

InternalServerError ==
  /\ resp' = Resp(Err(500, "Internal Server Error"), {})
  /\ UNCHANGED <<users, tasks, comments, notifications, next_task_id,
                 next_comment_id, next_notification_id, now>>

\* POST /tasks/{task_id}/comments
api_create_comment(u, task_id, body) ==
  IF Binds(CommentService_create_comment_params, create_comment_kwargs)
  THEN create_comment(u, task_id, CommentCreate(body))
  ELSE get_current_user(u) /\ InternalServerError

\* PUT /comments/{comment_id}
api_update_comment(u, comment_id, body) ==
  IF Binds(CommentService_update_comment_params, update_comment_kwargs)
  THEN update_comment(u, comment_id, [content |-> body.content])
  ELSE get_current_user(u) /\ InternalServerError

\* DELETE /comments/{comment_id}
api_delete_comment(u, comment_id) ==
  IF Binds(CommentService_delete_comment_params, delete_comment_kwargs)
  THEN delete_comment(u, comment_id)
  ELSE get_current_user(u) /\ InternalServerError

NextApi ==
  \/ \E u \in UserIds, task_data \in CommentTaskCreates :
       /\ next_task_id <= MaxTasks
       /\ create_task(u, task_data)
       /\ Record("create_task", u, 0, task_data)
  \/ \E u \in UserIds, t \in TaskIds, limit \in Limits :
       /\ get_task_comments(u, t, 0, limit)
       /\ Record("get_task_comments", u, t, [skip |-> 0, limit |-> limit])
  \/ \E u \in UserIds, t \in TaskIds, body \in ServiceCommentBodies :
       /\ next_comment_id <= MaxComments
       /\ api_create_comment(u, t, body)
       /\ Record("create_comment", u, t, body)
  \/ \E u \in UserIds, c \in CommentIds :
       /\ api_update_comment(u, c, [content |-> "y"])
       /\ RecordComment("update_comment", u, c, [content |-> "y"])
  \/ \E u \in UserIds, c \in CommentIds :
       api_delete_comment(u, c) /\ RecordComment("delete_comment", u, c, None)

SpecApi == Init /\ [][NextApi]_vars

\* C19, as the test states it: through the API the owner of a task creates
\* a comment on it (201, author_id = caller), which the task's comment list
\* then shows; its author updates its content (200) and deletes it (204),
\* after which the list no longer shows it.
C19_CommentLifecycle ==
  [][/\ (/\ req'.op = "create_comment"
         /\ req'.id \in DOMAIN tasks
         /\ tasks[req'.id].owner_id = req'.user) =>
          /\ resp'.status = 201
          /\ \E c \in DOMAIN comments' \ DOMAIN comments :
               /\ comments'[c].author_id = req'.user
               /\ comments'[c].task_id = req'.id
     /\ (/\ req'.op = "get_task_comments"
         /\ req'.id \in DOMAIN tasks
         /\ tasks[req'.id].owner_id = req'.user
         /\ req'.arg.limit >= Cardinality(CommentsOfTask(req'.id))) =>
          /\ resp'.status = 200
          /\ resp'.result = CommentRepository_get_by_task(req'.id)
     /\ (/\ req'.op = "update_comment"
         /\ req'.id \in DOMAIN comments
         /\ comments[req'.id].author_id = req'.user) =>
          /\ resp'.status = 200
          /\ comments'[req'.id].content = req'.arg.content
     /\ (/\ req'.op = "delete_comment"
         /\ req'.id \in DOMAIN comments
         /\ comments[req'.id].author_id = req'.user) =>
          /\ resp'.status = 204
          /\ req'.id \notin DOMAIN comments']_vars

\* the owner of a task has posted a comment on it and got 500, and the
\* task has no comment
C19_Witness ==
  /\ req.op = "create_comment"
  /\ req.id \in DOMAIN tasks
  /\ tasks[req.id].owner_id = req.user
  /\ resp.status = 500
  /\ CommentsOfTask(req.id) = {}

\* ------------------------------------------ the inbox and its readers
NextInboxRead ==
  \/ \E u \in ServiceUsers, task_data \in InboxTaskCreates :
       /\ next_task_id <= MaxParentTasks
       /\ create_task(u, task_data)
       /\ Record("create_task", u, 0, task_data)
  \/ \E u \in ServiceUsers, t \in ParentTaskIds, o \in ServiceUsers :
       change_task_owner(u, t, o) /\ Record("change_task_owner", u, t, o)
  \/ \E u \in ServiceUsers :
       /\ check_due_dates(u)
       /\ next_notification_id' <= MaxServiceNotifications + 1
       /\ Record("check_due_dates", u, 0, None)
  \/ \E u \in ServiceUsers, n \in 1..(MaxServiceNotifications + 1) :
       /\ mark_notification_as_read(u, n)
       /\ Record("mark_notification_as_read", u, n, None)
  \/ \E u \in ServiceUsers, n \in 1..(MaxServiceNotifications + 1) :
       delete_notification(u, n) /\ Record("delete_notification", u, n, None)
  \/ \E u \in ServiceUsers, unread_only \in BOOLEAN, skip \in Skips, limit \in Limits :
       /\ get_user_notifications(u, unread_only, skip, limit)
       /\ Record("get_user_notifications", u, 0,
                 [unread_only |-> unread_only, skip |-> skip,
                  limit |-> limit])
  \/ \E u \in ServiceUsers :
       /\ count_unread_notifications(u)
       /\ Record("count_unread_notifications", u, 0, None)

SpecInboxRead == Init /\ [][NextInboxRead]_vars

\* the notifications addressed to a user
NotificationsOfUser(v) ==
  {notifications[n] :
     n \in {i \in DOMAIN notifications : notifications[i].user_id = v}}

\* C20: the notification list and the unread count a caller gets hold the
\* caller's own notifications only, whatever the caller's role, and a step
\* that leaves a user's own notifications as they were leaves every list
\* and the unread count that user can get as they were.
C20_InboxIsolation ==
  [][/\ (req'.op = "get_user_notifications") =>
          LET own == {r \in NotificationsOfUser(req'.user) :
                        req'.arg.unread_only => ~r.is_read} IN
          /\ resp'.result \subseteq own
          /\ (req'.arg.skip = 0 /\ req'.arg.limit >= Cardinality(own))
               => resp'.result = own
     /\ (req'.op = "count_unread_notifications") =>
          resp'.result =
            {[unread_count |->
                Cardinality({r \in NotificationsOfUser(req'.user) :
                               ~r.is_read})]}
     /\ \A v \in DOMAIN users :
          (NotificationsOfUser(v))' = NotificationsOfUser(v) =>
            /\ (NotificationRepository_count_unread(v))' =
                 NotificationRepository_count_unread(v)
            /\ \A unread_only \in BOOLEAN, skip \in Skips, limit \in Limits :
                 (NotificationRepository_get_user_notifications(
                    v, unread_only, skip, limit))' =
                 NotificationRepository_get_user_notifications(
                    v, unread_only, skip, limit)]_vars

\* the OWNER-role user listed the inbox while another user had an unread
\* notification, and got only the own one
C20_Witness ==
  /\ req.op = "get_user_notifications"
  /\ users[req.user].role = OWNER
  /\ ~req.arg.unread_only
  /\ resp.result # {}
  /\ \A r \in resp.result : r.user_id = req.user
  /\ \E n \in DOMAIN notifications :
       notifications[n].user_id # req.user /\ ~notifications[n].is_read

\* ------------------------------- one task, its notifications and time
\* The task is due at the start of the second day: due soon on the first
\* day, due today on the second, overdue at the last tick.
NotifyUsers == {1, 2}
NotifyCreates ==
  {[title |-> "a", description |-> None, status |-> TODO,
    due_date |-> Some(DayLen)]}

\* a notification call also records the notification as it was before
RecordNotification(op, u, id) ==
  /\ req' = [op |-> op, user |-> u, id |-> id, arg |-> None,
             target |-> IF id \in DOMAIN notifications
                        THEN Some(notifications[id]) ELSE None]
  /\ calls' = calls

NextNotify ==
  \/ \E u \in NotifyUsers, task_data \in NotifyCreates :
       /\ next_task_id <= MaxParentTasks
       /\ create_task(u, task_data)
       /\ Record("create_task", u, 0, task_data)
  \/ \E u \in NotifyUsers, t \in 1..MaxParentTasks, o \in NotifyUsers :
       change_task_owner(u, t, o) /\ Record("change_task_owner", u, t, o)
  \/ \E u \in NotifyUsers :
       /\ check_due_dates(u)
       /\ next_notification_id' <= MaxNotifications + 1
       /\ Record("check_due_dates", u, 0, None)
  \/ \E u \in NotifyUsers, n \in 1..MaxNotifications :
       /\ mark_notification_as_read(u, n)
       /\ RecordNotification("mark_notification_as_read", u, n)
  \/ \E u \in NotifyUsers, n \in 1..MaxNotifications :
       /\ delete_notification(u, n)
       /\ RecordNotification("delete_notification", u, n)
  \/ Tick

SpecNotify == Init /\ [][NextNotify]_vars

\* C21: when the recipient marks a notification, the call answers 200 with
\* the notification read; marking one that is already read changes nothing,
\* and marking the result once more gives the same notification.
C21_MarkReadIdempotent ==
  [][(/\ req'.op = "mark_notification_as_read"
      /\ now' = now
      /\ req'.id \in DOMAIN notifications
      /\ notifications[req'.id].user_id = req'.user) =>
       /\ resp'.status = 200
       /\ req'.id \in DOMAIN notifications'
       /\ notifications'[req'.id].is_read = TRUE
       /\ resp'.result = {notifications'[req'.id]}
       /\ notifications[req'.id].is_read => notifications' = notifications
       /\ NotificationRepository_mark_as_read(notifications'[req'.id])
            = notifications'[req'.id]]_vars

\* the recipient marked a notification that was already read
C21_Witness ==
  /\ req.op = "mark_notification_as_read"
  /\ req.target # None
  /\ Val(req.target).is_read
  /\ Val(req.target).user_id = req.user
  /\ resp.status = 200
  /\ notifications[req.id].is_read

\* --------------------------------------------- two scans in flight
\* generate_due_date_notifications as its awaits cut it: the select of the
\* tasks, then for each task the existence check and, after it, the create
\* with its commit. Each call has its own session (get_db), so its tasks
\* are the rows its select returned (expire_on_commit=False).
ScanCalls == {1, 2}
RaceCreates ==
  {[title |-> "a", description |-> None, status |-> TODO,
    due_date |-> Some(0)]}

\* the message of each branch
ScanText(ty) ==
  IF ty = OVERDUE THEN "' is overdue"
  ELSE IF ty = DUE_TODAY THEN "' is due today" ELSE "' is due soon"

RecordCall(op, c) == req' = [op |-> op, call |-> c]

\* now = datetime.now(timezone.utc); tasks = list(result.all())
scan_begin(c, u) ==
  /\ get_current_user(u)
  /\ c \notin DOMAIN calls
  /\ IF get_current_owner(users[u]) # Ok
     THEN /\ resp' = Resp(get_current_owner(users[u]), {})
          /\ calls' = calls
     ELSE \E order \in Orders(ScanTasks) :
            /\ calls' = Put(calls, c,
                            [op |-> "check_due_dates", pc |-> "check",
                             n |-> now,
                             todo |-> [i \in DOMAIN order |-> tasks[order[i]]],
                             created |-> [ty \in NotificationType |-> 0]])
            /\ resp' = resp
  /\ UNCHANGED <<users, tasks, comments, notifications, next_task_id,
                 next_comment_id, next_notification_id, now>>

\* the branch of the task at the head of the loop and its
\* exists_for_task_and_type query
scan_check(c) ==
  /\ c \in DOMAIN calls
  /\ calls[c].op = "check_due_dates"
  /\ calls[c].pc = "check"
  /\ calls[c].todo # <<>>
  /\ LET task == Head(calls[c].todo)
         ty == Bucket(Val(task.due_date), calls[c].n) IN
     IF /\ ty \in NotificationType
        /\ ~NotificationRepository_exists_for_task_and_type(
              notifications, task.id, ty)
     THEN calls' = Put(calls, c, [calls[c] EXCEPT !.pc = "create"])
     ELSE calls' = Put(calls, c, [calls[c] EXCEPT !.todo = Tail(@)])
  /\ UNCHANGED <<users, tasks, comments, notifications, next_task_id,
                 next_comment_id, next_notification_id, now, resp>>

\* mutant: the create looks again and gives up when an unread notification
\* of the type has appeared
scan_create_recheck(c) ==
  /\ c \in DOMAIN calls
  /\ calls[c].op = "check_due_dates"
  /\ calls[c].pc = "create"
  /\ LET task == Head(calls[c].todo)
         ty == Bucket(Val(task.due_date), calls[c].n) IN
     IF NotificationRepository_exists_for_task_and_type(
          notifications, task.id, ty)
     THEN /\ UNCHANGED <<notifications, next_notification_id>>
          /\ calls' = Put(calls, c, [calls[c] EXCEPT !.pc = "check",
                                                     !.todo = Tail(@)])
     ELSE /\ notifications' =
               Put(notifications, next_notification_id,
                   NotificationRepository_create(
                     next_notification_id, task.owner_id, task.id, ty,
                     <<"Task '", task.title, ScanText(ty)>>))
          /\ next_notification_id' = next_notification_id + 1
          /\ calls' = Put(calls, c,
                          [calls[c] EXCEPT !.pc = "check", !.todo = Tail(@),
                                           !.created[ty] = @ + 1])
  /\ UNCHANGED <<users, tasks, comments, next_task_id, next_comment_id,
                 now, resp>>

\* NotificationRepository.create and its commit, after a check that found
\* nothing
scan_create(c) ==
  /\ c \in DOMAIN calls
  /\ calls[c].op = "check_due_dates"
  /\ calls[c].pc = "create"
  /\ LET task == Head(calls[c].todo)
         ty == Bucket(Val(task.due_date), calls[c].n) IN
     /\ notifications' =
          Put(notifications, next_notification_id,
              NotificationRepository_create(
                next_notification_id, task.owner_id, task.id, ty,
                <<"Task '", task.title, ScanText(ty)>>))
     /\ next_notification_id' = next_notification_id + 1
     /\ calls' = Put(calls, c,
                     [calls[c] EXCEPT !.pc = "check", !.todo = Tail(@),
                                      !.created[ty] = @ + 1])
  /\ UNCHANGED <<users, tasks, comments, next_task_id, next_comment_id,
                 now, resp>>

\* return notifications_created
scan_return(c) ==
  /\ c \in DOMAIN calls
  /\ calls[c].op = "check_due_dates"
  /\ calls[c].pc = "check"
  /\ calls[c].todo = <<>>
  /\ resp' = Resp(Ok, {[notifications_created |-> calls[c].created,
                         total |-> calls[c].created[DUE_TODAY]
                                   + calls[c].created[DUE_SOON]
                                   + calls[c].created[OVERDUE]]})
  /\ calls' = Drop(calls, {c})
  /\ UNCHANGED <<users, tasks, comments, notifications, next_task_id,
                 next_comment_id, next_notification_id, now>>

NextScanRace ==
  \/ \E task_data \in RaceCreates :
       /\ next_task_id <= MaxTasks
       /\ create_task(1, task_data)
       /\ Record("create_task", 1, 0, task_data)
  \/ \E c \in ScanCalls, u \in ServiceUsers :
       scan_begin(c, u) /\ RecordCall("scan_begin", c)
  \/ \E c \in ScanCalls : scan_check(c) /\ RecordCall("scan_check", c)
  \/ \E c \in ScanCalls :
       /\ next_notification_id <= MaxNotifications
       /\ scan_create(c)
       /\ RecordCall("scan_create", c)
  \/ \E c \in ScanCalls : scan_return(c) /\ RecordCall("scan_return", c)

SpecScanRace == Init /\ [][NextScanRace]_vars

\* the unread notifications of a type a task has in a table
UnreadIn(notifs, task_id, notification_type) ==
  {n \in DOMAIN notifs :
     /\ notifs[n].task_id = task_id
     /\ notifs[n].notification_type = notification_type
     /\ ~notifs[n].is_read}

\* C22: the create of a scan commits one unread notification whatever has
\* been committed since its check, so two scans that have both passed the
\* check for a task leave two unread notifications of one type for it; a
\* second unread notification of a type only ever comes from such a create.
C22_CheckThenCreateNotAtomic ==
  [][/\ \A c \in DOMAIN calls :
          (calls[c].pc = "create" /\ calls'[c] # calls[c]) =>
            LET task == Head(calls[c].todo) IN
            \E ty \in NotificationType :
              Cardinality(UnreadIn(notifications', task.id, ty)) =
                Cardinality(UnreadIn(notifications, task.id, ty)) + 1
     /\ \A t \in DOMAIN tasks, ty \in NotificationType :
          (Cardinality(UnreadIn(notifications', t, ty)) > 1 /\
           Cardinality(UnreadIn(notifications, t, ty)) <= 1) =>
            /\ req'.op = "scan_create"
            /\ calls[req'.call].pc = "create"
            /\ Head(calls[req'.call].todo).id = t]_vars

\* both scans have returned and a task holds two unread notifications of
\* one type
C22_Witness ==
  /\ calls = <<>>
  /\ req.op = "scan_return"
  /\ \E t \in DOMAIN tasks, ty \in NotificationType :
       Cardinality(UnreadOf(t, ty)) = 2

\* C23: a scan over an open task that is overdue and has no unread OVERDUE
\* notification left (its recipient has read or deleted them) creates
\* exactly one new unread OVERDUE notification for the task, each time.
C23_OverdueRecreated ==
  [][(req'.op = "check_due_dates" /\ now' = now /\ resp'.status = 200) =>
       \A t \in ScanTasks :
         (/\ Val(tasks[t].due_date) < now
          /\ UnreadIn(notifications, t, OVERDUE) = {}) =>
           /\ Cardinality(UnreadIn(notifications', t, OVERDUE)) = 1
           /\ \A n \in UnreadIn(notifications', t, OVERDUE) :
                /\ n \notin DOMAIN notifications
                /\ notifications'[n].user_id = tasks[t].owner_id]_vars

\* after two read-then-scan cycles the task holds two read OVERDUE
\* notifications and a new unread one
C23_Witness ==
  /\ req.op = "check_due_dates"
  /\ resp.status = 200
  /\ \E t \in DOMAIN tasks :
       /\ Cardinality(UnreadOf(t, OVERDUE)) = 1
       /\ Cardinality({n \in DOMAIN notifications :
                         /\ notifications[n].task_id = t
                         /\ notifications[n].notification_type = OVERDUE
                         /\ notifications[n].is_read}) = 2
       /\ \A n \in UnreadOf(t, OVERDUE) : n = next_notification_id - 1

\* ------------------------------------- task updates and deletes in flight
\* PUT and DELETE /tasks/{task_id} as their awaits cut them: first
\* get_task_for_action, which loads the task into the call's session and
\* checks the permission, then the repository's write and commit.
TaskCalls == {1, 2}
RaceUsers == {1, 2}
RaceUpdates == {[title |-> "b"], [title |-> "c"], [status |-> DONE]}

\* the UPDATE of the flush: a column is written when the value set on the
\* loaded object differs from the value it was loaded with; the other
\* columns keep what the table holds
TaskRepository_update_flush(db_obj, row, update_data) ==
  [f \in DOMAIN row |->
     IF f \in DOMAIN update_data /\ update_data[f] # db_obj[f]
     THEN update_data[f] ELSE row[f]]

\* task = await TaskService.get_task_for_action(db, task_id, current_user)
task_call_begin(c, u, op, task_id, update_data) ==
  /\ get_current_user(u)
  /\ c \notin DOMAIN calls
  /\ LET r == get_task_for_action(task_id, users[u]) IN
     IF r = Ok
     THEN /\ calls' = Put(calls, c,
                          [op |-> op, pc |-> "write", user |-> u,
                           db_obj |-> tasks[task_id],
                           update_data |-> update_data])
          /\ resp' = resp
     ELSE /\ resp' = Resp(r, {})
          /\ calls' = calls
  /\ UNCHANGED <<users, tasks, comments, notifications, next_task_id,
                 next_comment_id, next_notification_id, now>>

\* mutant: the write checks the permission again on the row as it is now
task_write_recheck(c) ==
  /\ c \in DOMAIN calls
  /\ calls[c].op \in {"update_task", "delete_task"}
  /\ calls[c].pc = "write"
  /\ LET id == calls[c].db_obj.id
         r == get_task_for_action(id, users[calls[c].user]) IN
     IF r # Ok
     THEN /\ resp' = Resp(r, {})
          /\ UNCHANGED <<tasks, comments, notifications>>
     ELSE IF calls[c].op = "update_task"
     THEN LET updated_task ==
                TaskRepository_update_flush(calls[c].db_obj, tasks[id],
                                            calls[c].update_data) IN
          /\ tasks' = Put(tasks, id, updated_task)
          /\ resp' = Resp(Ok, {updated_task})
          /\ UNCHANGED <<comments, notifications>>
     ELSE /\ tasks' = Drop(tasks, {id})
          /\ comments' = Drop(comments, CommentsOfTask(id))
          /\ notifications' = Drop(notifications, NotificationsOfTask(id))
          /\ resp' = Resp(Err(204, ""), {})
  /\ calls' = Drop(calls, {c})
  /\ UNCHANGED <<users, next_task_id, next_comment_id,
                 next_notification_id, now>>

\* TaskRepository.update / TaskRepository.delete on the loaded object, and
\* the commit. An UPDATE that matches no row raises StaleDataError; a
\* DELETE that matches no row is reported or not.
task_write(c) ==
  /\ c \in DOMAIN calls
  /\ calls[c].op \in {"update_task", "delete_task"}
  /\ calls[c].pc = "write"
  /\ LET id == calls[c].db_obj.id IN
     IF id \notin DOMAIN tasks
     THEN /\ \E st \in (IF calls[c].op = "update_task" THEN {500}
                        ELSE {204, 500}) :
               resp' = Resp(Err(st, IF st = 500 THEN "Internal Server Error"
                                    ELSE ""), {})
          /\ UNCHANGED <<tasks, comments, notifications>>
     ELSE IF calls[c].op = "update_task"
     THEN LET updated_task ==
                TaskRepository_update_flush(calls[c].db_obj, tasks[id],
                                            calls[c].update_data) IN
          /\ tasks' = Put(tasks, id, updated_task)
          /\ resp' = Resp(Ok, {updated_task})
          /\ UNCHANGED <<comments, notifications>>
     ELSE /\ tasks' = Drop(tasks, {id})
          /\ comments' = Drop(comments, CommentsOfTask(id))
          /\ notifications' = Drop(notifications, NotificationsOfTask(id))
          /\ resp' = Resp(Err(204, ""), {})
  /\ calls' = Drop(calls, {c})
  /\ UNCHANGED <<users, next_task_id, next_comment_id,
                 next_notification_id, now>>

\* a write records its call as it was, the row it found, the calls in
\* flight with it and, when the step before it was the update write of a
\* call it was in flight with, what that update carried
RecordWrite(c) ==
  req' = [op |-> "task_write", call |-> c, user |-> calls[c].user,
          kind |-> calls[c].op, id |-> calls[c].db_obj.id,
          update_data |-> calls[c].update_data,
          found |-> IF calls[c].db_obj.id \in DOMAIN tasks
                    THEN Some(tasks[calls[c].db_obj.id]) ELSE None,
          others |-> DOMAIN calls \ {c},
          after |-> IF /\ req.op = "task_write"
                       /\ req.kind = "update_task"
                       /\ req.found # None
                       /\ c \in req.others
                    THEN Some(req.update_data) ELSE None]

NextTaskRace ==
  \/ \E u \in RaceUsers, task_data \in CommentTaskCreates :
       /\ next_task_id <= MaxParentTasks
       /\ create_task(u, task_data)
       /\ Record("create_task", u, 0, task_data)
  \/ \E u \in RaceUsers, t \in 1..MaxParentTasks, o \in RaceUsers :
       change_task_owner(u, t, o) /\ Record("change_task_owner", u, t, o)
  \/ \E c \in TaskCalls, u \in RaceUsers, t \in 1..MaxParentTasks, update_data \in RaceUpdates :
       /\ task_call_begin(c, u, "update_task", t, update_data)
       /\ RecordCall("update_task", c)
  \/ \E c \in TaskCalls, u \in RaceUsers, t \in 1..MaxParentTasks :
       /\ task_call_begin(c, u, "delete_task", t, <<>>)
       /\ RecordCall("delete_task", c)
  \/ \E c \in TaskCalls : task_write(c) /\ RecordWrite(c)

SpecTaskRace == Init /\ [][NextTaskRace]_vars

\* C24: the write of an update or delete in flight commits on the row as it
\* is now, whoever owns it by then: an update writes its changed fields and
\* a delete removes the task. When a MEMBER's write lands on a task the
\* MEMBER does not own, the task was the MEMBER's own when the check loaded
\* it.
C24_CheckThenWriteNotAtomic ==
  [][(req'.op = "task_write" /\ req' # req /\ req'.found # None) =>
       LET c == req'.call
           id == req'.id IN
       /\ c \in DOMAIN calls /\ c \notin DOMAIN calls'
       /\ (calls[c].op = "delete_task") =>
            (id \notin DOMAIN tasks' /\ resp'.status = 204)
       /\ (calls[c].op = "update_task") =>
            /\ resp'.status = 200
            /\ tasks'[id] = TaskRepository_update_flush(
                              calls[c].db_obj, tasks[id],
                              calls[c].update_data)
            /\ tasks'[id].owner_id = tasks[id].owner_id
       /\ (/\ users[calls[c].user].role = MEMBER
           /\ tasks[id].owner_id # calls[c].user) =>
            calls[c].db_obj.owner_id = calls[c].user]_vars

\* a MEMBER's update has changed, or a MEMBER's delete has removed, a task
\* that another user owned by the time of the write
C24_Witness ==
  /\ req.op = "task_write"
  /\ users[req.user].role = MEMBER
  /\ req.found # None
  /\ Val(req.found).owner_id # req.user
  /\ \/ req.kind = "delete_task" /\ req.id \notin DOMAIN tasks
     \/ /\ req.kind = "update_task"
        /\ req.id \in DOMAIN tasks
        /\ tasks[req.id] # Val(req.found)
        /\ tasks[req.id].owner_id # req.user

\* C25: when the write of an update follows the write of another update of
\* the same task that it was in flight with, no conflict is reported (200),
\* a field both requests carry ends with the value of the later write, and a
\* field only one of them carries ends with that request's value.
C25_LastCommitWinsPerField ==
  [][(/\ req'.op = "task_write"
      /\ req' # req
      /\ req'.kind = "update_task"
      /\ req'.found # None
      /\ req'.after # None) =>
       LET first == Val(req'.after)
           last == req'.update_data
           row == tasks'[req'.id] IN
       /\ resp'.status = 200
       /\ \A f \in DOMAIN last : row[f] = last[f]
       /\ \A f \in DOMAIN first \ DOMAIN last : row[f] = first[f]]_vars

\* two updates that both carry the title were in flight together, both
\* have committed, and the title is not the one the later write carried
C25_Witness ==
  /\ req.op = "task_write"
  /\ req.kind = "update_task"
  /\ req.found # None
  /\ req.after # None
  /\ resp.status = 200
  /\ "title" \in DOMAIN req.update_data
  /\ "title" \in DOMAIN Val(req.after)
  /\ tasks[req.id].title # req.update_data.title
  /\ tasks[req.id].title = Val(req.after).title

\* --------------------------------------------- who changes which task
OwnerUsers == {1, 2, 3}
OwnerBodies ==
  {[title |-> "b"], [status |-> DONE, owner_id |-> 2],
   [title |-> "b", owner_id |-> 3]}

NextOwner ==
  \/ \E u \in OwnerUsers, task_data \in ServiceTaskCreates :
       /\ next_task_id <= MaxTasks
       /\ create_task(u, task_data)
       /\ Record("create_task", u, 0, task_data)
  \/ \E u \in OwnerUsers, t \in TaskIds, body \in OwnerBodies :
       update_task(u, t, TaskUpdate(body)) /\ Record("update_task", u, t, body)
  \/ \E u \in OwnerUsers, t \in TaskIds :
       delete_task(u, t) /\ Record("delete_task", u, t, None)
  \/ \E u \in OwnerUsers, t \in TaskIds, o \in OwnerUsers :
       change_task_owner(u, t, o) /\ Record("change_task_owner", u, t, o)

SpecOwner == Init /\ [][NextOwner]_vars

\* C26: in a run of calls, the owner of a task changes only in a
\* change_task_owner call by an OWNER-role caller that answers 200, and a
\* call by a MEMBER leaves every task the MEMBER does not own in place and
\* as it was.
C26_OwnerOnlyByTransfer ==
  [][("user" \in DOMAIN req') =>
       \A t \in DOMAIN tasks :
         /\ (t \in DOMAIN tasks' /\ tasks'[t].owner_id # tasks[t].owner_id) =>
              /\ req'.op = "change_task_owner"
              /\ req'.id = t
              /\ users[req'.user].role = OWNER
              /\ resp'.status = 200
         /\ (/\ users[req'.user].role = MEMBER
             /\ tasks[t].owner_id # req'.user) =>
              (t \in DOMAIN tasks' /\ tasks'[t] = tasks[t])]_vars

\* a MEMBER sent an update naming themselves owner of another user's task
\* and was refused
C26_Witness ==
  /\ req.op = "update_task"
  /\ users[req.user].role = MEMBER
  /\ "owner_id" \in DOMAIN req.arg
  /\ req.id \in DOMAIN tasks
  /\ tasks[req.id].owner_id # req.user
  /\ resp.status \in {403, 404}

\* C27: a scan addresses each notification it creates to the owner the task
\* has at that scan; change_task_owner leaves the notifications as they
\* are; and while an unread notification of a type exists for a task, a
\* scan creates none of that type for it, whoever owns the task by then.
C27_RecipientIsOwnerAtScan ==
  [][(now' = now /\ "user" \in DOMAIN req') =>
       /\ (req'.op = "change_task_owner") => notifications' = notifications
       /\ (req'.op = "check_due_dates") =>
            /\ \A n \in DOMAIN notifications' \ DOMAIN notifications :
                 notifications'[n].user_id =
                   tasks[notifications'[n].task_id].owner_id
            /\ \A t \in DOMAIN tasks, ty \in NotificationType :
                 UnreadIn(notifications, t, ty) # {} =>
                   UnreadIn(notifications', t, ty) =
                     UnreadIn(notifications, t, ty)]_vars

\* a scan ran over a transferred task that is due for a notification of a
\* type, found the former owner's unread one and created none for the new
\* owner
C27_Witness ==
  /\ req.op = "check_due_dates"
  /\ resp.status = 200
  /\ \E body \in resp.result : body.total = 0
  /\ \E t \in DOMAIN tasks :
       LET ty == Bucket(Val(tasks[t].due_date), now) IN
       /\ ty \in NotificationType
       /\ UnreadOf(t, ty) # {}
       /\ \A n \in UnreadOf(t, ty) :
            notifications[n].user_id # tasks[t].owner_id

\* C28: update_comment and delete_comment by the comment's author succeed
\* whoever owns the comment's task, while get_task_comments and
\* create_comment by a MEMBER on a task of another user are refused and
\* change no comment.
C28_AuthorKeepsCommentAfterTransfer ==
  [][("user" \in DOMAIN req') =>
       /\ (/\ req'.op \in {"update_comment", "delete_comment"}
           /\ req'.id \in DOMAIN comments
           /\ comments[req'.id].author_id = req'.user) =>
            IF req'.op = "update_comment"
            THEN /\ resp'.status = 200
                 /\ comments'[req'.id].content = req'.arg.content
            ELSE /\ resp'.status = 204
                 /\ req'.id \notin DOMAIN comments'
       /\ (/\ req'.op \in {"get_task_comments", "create_comment"}
           /\ req'.id \in DOMAIN tasks
           /\ users[req'.user].role = MEMBER
           /\ tasks[req'.id].owner_id # req'.user) =>
            /\ resp'.status = 403
            /\ comments' = comments]_vars

\* a MEMBER has updated their own comment on a task that now belongs to
\* another user
C28_Witness ==
  /\ req.op = "update_comment"
  /\ resp.status = 200
  /\ users[req.user].role = MEMBER
  /\ req.id \in DOMAIN comments
  /\ comments[req.id].author_id = req.user
  /\ comments[req.id].content = req.arg.content
  /\ tasks[comments[req.id].task_id].owner_id # req.user

\* C29: a notification is unread when it appears, a read notification
\* stays read, and user_id, task_id and notification_type of a notification
\* never change.
C29_ReadIsMonotone ==
  [][/\ \A n \in DOMAIN notifications' \ DOMAIN notifications :
          notifications'[n].is_read = FALSE
     /\ \A n \in DOMAIN notifications \cap DOMAIN notifications' :
          /\ notifications[n].is_read => notifications'[n].is_read
          /\ notifications'[n].user_id = notifications[n].user_id
          /\ notifications'[n].task_id = notifications[n].task_id
          /\ notifications'[n].notification_type =
               notifications[n].notification_type]_vars

\* after a notification was read and its task handed to another user, a
\* scan has created a new one: the old one is still read and still
\* addressed to the former owner, the new one is unread
C29_Witness ==
  /\ req.op = "check_due_dates"
  /\ \E body \in resp.result : body.total = 1
  /\ \E n, m \in DOMAIN notifications :
       /\ n < m
       /\ m = next_notification_id - 1
       /\ notifications[n].task_id = notifications[m].task_id
       /\ notifications[n].is_read
       /\ ~notifications[m].is_read
       /\ notifications[n].user_id # notifications[m].user_id

\* the place of a type in the life of a due date
TypeRank(ty) ==
  IF ty = DUE_SOON THEN 1 ELSE IF ty = DUE_TODAY THEN 2 ELSE 3

\* C30: a scan leaves every notification that exists as it is, so the
\* notifications of a task pile up as time advances: in the order DUE_SOON,
\* DUE_TODAY, OVERDUE, with at most one unread per type and so at most three
\* unread per task.
C30_UnreadPileUp ==
  [][(req'.op = "check_due_dates" /\ now' = now) =>
       /\ \A n \in DOMAIN notifications :
            n \in DOMAIN notifications' /\ notifications'[n] = notifications[n]
       /\ \A t \in DOMAIN tasks :
            /\ \A ty \in NotificationType :
                 Cardinality(UnreadIn(notifications', t, ty)) <= 1
            /\ Cardinality({n \in DOMAIN notifications' :
                              /\ notifications'[n].task_id = t
                              /\ ~notifications'[n].is_read}) <= 3
            /\ \A n, m \in DOMAIN notifications' :
                 (/\ notifications'[n].task_id = t
                  /\ notifications'[m].task_id = t
                  /\ n < m) =>
                   TypeRank(notifications'[n].notification_type)
                     <= TypeRank(notifications'[m].notification_type)]_vars

\* one open task holds three unread notifications, one of each type
C30_Witness ==
  /\ req.op = "check_due_dates"
  /\ \E t \in DOMAIN tasks :
       /\ tasks[t].status # DONE
       /\ \A ty \in NotificationType : Cardinality(UnreadOf(t, ty)) = 1

====
